---- MODULE Spec2Model ----
(***************************************************************************)
(* Real-time monitoring session manager of the WESAD stress-detection      *)
(* backend: the process-wide registry active_monitors (services.py), the   *)
(* three request handlers that read and write it (routes/main.py), the     *)
(* per-session background loop of RealTimeStressMonitor, and the           *)
(* persistence sink store_prediction (database.py) with its callers.       *)
(*                                                                         *)
(* Request handlers run on request threads and interleave at statement     *)
(* granularity; a monitoring loop runs on its own thread.  A step that     *)
(* touches only the thread's own locals is folded into the neighbouring    *)
(* step that reads or writes shared state.  Confidences and scores are     *)
(* percentages (0.85 is 85), eda is in hundredths, time is in seconds.     *)
(***************************************************************************)
EXTENDS Integers, Sequences, FiniteSets

\* ------------------------------------------------------------------ bounds

\* Number of HTTP requests (start / stop / status) issued in one behaviour.
MaxCalls == 2

\* Number of ticks the monitoring loops may begin, all loops together.
MaxTicks == 2

\* Number of rows the predictions table takes before an insert fails.
MaxRows == 2

\* Days the clock may advance.
MaxDays == 2

\* start_monitoring calls on one monitor object that pass its test.
MaxLoops == 2

\* ------------------------------------------------------- program constants

\* generate_test_data stores range(10) rows.
GenCount == 10

SleepNormal == 3
SleepError == 5

\* The tick cadence of the reference implementation is the normal-path wait.
TickPeriod == SleepNormal

Users == {"u1", "u2"}

HeartRates == {70, 95}
Edas == {30}

\* A Reading as produced by _get_live_sensor_data (the fields predict_stress
\* and store_prediction look at).
Readings == [heart_rate : HeartRates, eda : Edas]

\* latest_sensor_data = {} of a fresh monitor.
NoData == [heart_rate |-> 0, eda |-> 0]

None == 0

\* ----------------------------------------------------------- pure functions

\* Values of a sensor_data field that are no reading: the key is absent
\* (.get gives its default), the value is no number (None, a string: the
\* comparison or the :.2f format raises), or sensor_data is no dict at all
\* (None: .get raises).
Absent == -1
Bad == -2
NotADict == -3

\* Whether the try block of predict_stress raises on sensor_data.
Raises(sensor_data) ==
    \/ sensor_data.heart_rate \in {Bad, NotADict}
    \/ sensor_data.eda \in {Bad, NotADict}

\* predict_stress with thresholds that include their bound.
predict_stress_bound_mutant(sensor_data) ==
    LET hr == IF sensor_data.heart_rate = Absent THEN 70 ELSE sensor_data.heart_rate
        eda == IF sensor_data.eda = Absent THEN 30 ELSE sensor_data.eda
    IN  IF Raises(sensor_data)
          THEN [stress_level |-> "baseline", confidence |-> 50, model_used |-> "fallback"]
          ELSE IF hr >= 90 \/ eda >= 70
                 THEN [stress_level |-> "stress", confidence |-> 85, model_used |-> "RandomForest"]
                 ELSE IF hr >= 75 \/ eda >= 50
                        THEN [stress_level |-> "amusement", confidence |-> 70,
                              model_used |-> "RandomForest"]
                        ELSE [stress_level |-> "baseline", confidence |-> 75,
                              model_used |-> "RandomForest"]

\* predict_stress without its try / except: the exception reaches the caller.
predict_stress_mutant(sensor_data) ==
    LET hr == IF sensor_data.heart_rate = Absent THEN 70 ELSE sensor_data.heart_rate
        eda == IF sensor_data.eda = Absent THEN 30 ELSE sensor_data.eda
    IN  IF Raises(sensor_data)
          THEN [stress_level |-> "raised", confidence |-> 0, model_used |-> "raised"]
          ELSE IF hr > 90 \/ eda > 70
                 THEN [stress_level |-> "stress", confidence |-> 85, model_used |-> "RandomForest"]
                 ELSE IF hr > 75 \/ eda > 50
                        THEN [stress_level |-> "amusement", confidence |-> 70,
                              model_used |-> "RandomForest"]
                        ELSE [stress_level |-> "baseline", confidence |-> 75,
                              model_used |-> "RandomForest"]

\* MLService.predict_stress: the thresholds on heart_rate (default 70) and
\* eda (default 0.3), and the fallback of its except clause.
predict_stress(sensor_data) ==
    LET hr == IF sensor_data.heart_rate = Absent THEN 70 ELSE sensor_data.heart_rate
        eda == IF sensor_data.eda = Absent THEN 30 ELSE sensor_data.eda
    IN  IF Raises(sensor_data)
          THEN [stress_level |-> "baseline", confidence |-> 50, model_used |-> "fallback"]
          ELSE IF hr > 90 \/ eda > 70
                 THEN [stress_level |-> "stress", confidence |-> 85, model_used |-> "RandomForest"]
                 ELSE IF hr > 75 \/ eda > 50
                        THEN [stress_level |-> "amusement", confidence |-> 70,
                              model_used |-> "RandomForest"]
                        ELSE [stress_level |-> "baseline", confidence |-> 75,
                              model_used |-> "RandomForest"]

\* The stress-score normalisation of store_prediction.
stress_score_mutant(stress_level, confidence) == confidence

stress_score(stress_level, confidence) ==
    IF stress_level = "stress" THEN confidence ELSE 100 - confidence

\* The call site of a store_prediction: a function, and for the monitoring
\* loop the monitor it runs for.
Caller(name, monitor) == [name |-> name, monitor |-> monitor]

\* RealTimeStressMonitor.get_latest_data.
get_latest_data(monitor) ==
    IF monitor.latest_sensor_data = NoData
      THEN [stress_level |-> "baseline", confidence |-> 40, status |-> "No data yet"]
      ELSE LET prediction == IF monitor.ml_service
                               THEN predict_stress(monitor.latest_sensor_data)
                               ELSE [stress_level |-> "baseline", confidence |-> 40,
                                     model_used |-> "fallback"]
           IN  [stress_level |-> prediction.stress_level,
                confidence   |-> prediction.confidence,
                status       |-> "Active"]

NoLatest == [stress_level |-> "none", confidence |-> 0, status |-> "none"]

\* -------------------------------------------------------------------- state

VARIABLES
    active_monitors,  \* services.active_monitors: user -> monitor id, None if absent
    monitors,         \* the RealTimeStressMonitor objects constructed so far
    threads,          \* the monitoring thread of each monitor
    calls,            \* the HTTP requests in flight, each on its own request thread
    responses,        \* the responses returned so far
    issued,           \* number of requests issued so far
    predictions,      \* the rows of the predictions table, in insertion order
    database_loads,   \* whether "import database" succeeds in this process
    stopDone,         \* user -> how far the latest stop for the user got with no start acting since
    sync,             \* the process-wide FitbitBackgroundSync (services/fitbit_service.py):
                      \* its flag, the greenthread it refers to, the user of that
                      \* greenthread, and the live greenthreads it refers to no more
    audit,            \* per monitor: rows stored and ticks begun when stopped, the
                      \* seconds from the stop to the loop's next while test, and
                      \* whether a tick of its loop met a fault
    now,              \* datetime.now(timezone.utc), in days since the process was observed
    loops,            \* the threads started by start_monitoring calls made on a
                      \* monitor object directly, each from the point at which
                      \* the call has passed the test of the flag
    emitted           \* the socketio.emit calls made so far, in order

vars == <<active_monitors, monitors, threads, calls, responses, issued, predictions,
          database_loads, stopDone, sync, audit, now, loops, emitted>>

\* The state of the Fitbit synchronisation services.
fitbit == <<sync>>

\* The state of the monitoring sessions and their registry.
monitoring == <<active_monitors, monitors, threads, database_loads, stopDone, audit>>

\* The row store_prediction inserts.  caller and tick identify the call site
\* and, for a monitoring loop, the tick that produced the row; timestamp is
\* datetime.now(timezone.utc).isoformat(), in days.
prediction_row(stress_level, confidence, features, user_id, model_used, caller, tick) ==
    [timestamp    |-> now,
     prediction   |-> stress_level,
     probability  |-> confidence,
     user_id      |-> user_id,
     heart_rate   |-> features.heart_rate,
     model_used   |-> model_used,
     stress_score |-> stress_score(stress_level, confidence),
     caller       |-> caller,
     tick         |-> tick]

Monitors == 1..Len(monitors)
Calls == 1..Len(calls)

\* The process is observed from a point at which nobody is monitored, or from
\* one at which a start for user "u1" has returned and its session is running.
Init ==
    /\ database_loads \in BOOLEAN
    /\ \/ /\ active_monitors = [u \in Users |-> None]
          /\ monitors = <<>>
          /\ threads = <<>>
          /\ audit = <<>>
       \/ /\ active_monitors = [u \in Users |-> IF u = "u1" THEN 1 ELSE None]
          /\ monitors = <<[user |-> "u1", ml_service |-> TRUE, socketio |-> FALSE,
                           active |-> TRUE, latest_sensor_data |-> NoData,
                           database |-> database_loads]>>
          /\ threads = <<[pc |-> "top", sensor_data |-> NoData, sleep |-> 0, ticks |-> 0]>>
          /\ audit = <<[stopAt |-> -1, ticksAt |-> 0, sinceStop |-> 0, faulted |-> FALSE]>>
    /\ calls = <<>>
    /\ responses = {}
    /\ issued = 0
    /\ predictions = <<>>
    /\ stopDone = [u \in Users |-> "no"]
    /\ sync = [running |-> FALSE, greenthread |-> "none", user |-> "none",
               unreferenced |-> 0]
    /\ now = 0
    /\ loops = <<>>
    /\ emitted = <<>>

\* A request thread at step pc of handler op.
At(c, op, pc) == calls[c].op = op /\ calls[c].pc = pc

Goto(c, pc) == [calls EXCEPT ![c].pc = pc]

\* The calls in flight without call c.
Without(c) == [i \in 1..(Len(calls) - 1) |-> IF i < c THEN calls[i] ELSE calls[i + 1]]

\* The response of a call: the JSON status, the monitor the handler held, the
\* latest_data of an active status, and whether the status call followed a stop.
Response(call, result, latest_data) ==
    [op |-> call.op, user |-> call.user, result |-> result, monitor |-> call.monitor,
     latest_data |-> latest_data, afterStop |-> call.afterStop]

\* A request arrives for user u and is dispatched to a request thread.
NewCall(op, u, pc, monitor) ==
    [op |-> op, user |-> u, pc |-> pc, monitor |-> monitor,
     afterStop |-> op = "status" /\ stopDone[u] = "returned"]

\* The request thread of a new call goes on to step pc of its handler.
Enter(op, u, pc, monitor) ==
    /\ issued < MaxCalls
    /\ issued' = issued + 1
    /\ calls' = Append(calls, NewCall(op, u, pc, monitor))
    /\ UNCHANGED responses

\* The handler of a new call returns from its first statement.
Answer(op, u, result) ==
    /\ issued < MaxCalls
    /\ issued' = issued + 1
    /\ responses' = responses \cup {Response(NewCall(op, u, "done", None), result, NoLatest)}
    /\ UNCHANGED calls

\* Call c returns.
Return(c, result, latest_data) ==
    /\ responses' = responses \cup {Response(calls[c], result, latest_data)}
    /\ calls' = Without(c)
    /\ UNCHANGED issued

\* Call c goes on to step pc.
Step(c, pc) ==
    /\ calls' = Goto(c, pc)
    /\ UNCHANGED <<responses, issued>>

\* A start request acting for user u ends "stop immediately followed by ...".
StartActs(u) == stopDone' = [stopDone EXCEPT ![u] = "no"]

\* A stop request removes the entry of user u.
StopRemoves(u) == stopDone' = [stopDone EXCEPT ![u] = "removed"]

\* A stop request for user u returns: it is a stop a status can follow when
\* no start has acted for u since the entry was found absent or removed.
StopReturns(u) == stopDone' = [stopDone EXCEPT ![u] = IF @ = "no" THEN "no" ELSE "returned"]

\* Rows the monitoring loop of monitor m has stored.
Stored(m) == Cardinality({i \in 1..Len(predictions) : predictions[i].caller.monitor = m})

\* Ticks begun so far by the loops of monitors 1..m.
RECURSIVE TicksBegun(_)
TicksBegun(m) == IF m = 0 THEN 0 ELSE threads[m].ticks + TicksBegun(m - 1)

\* ---- start_realtime (routes/main.py)

\* RealTimeStressMonitor.__init__ with (current_user, services.ml_service, None):
\* self.database is None when the import fails.
NewMonitor(u) ==
    [user |-> u, ml_service |-> TRUE, socketio |-> FALSE, active |-> FALSE,
     latest_sensor_data |-> NoData, database |-> database_loads]

NewThread == [pc |-> "none", sensor_data |-> NoData, sleep |-> 0, ticks |-> 0]

NewAudit == [stopAt |-> -1, ticksAt |-> 0, sinceStop |-> 0, faulted |-> FALSE]

\* start_realtime without its membership test.
StartCheck_mutant(u) ==
    /\ StartActs(u)
    /\ monitors' = Append(monitors, NewMonitor(u))
    /\ threads' = Append(threads, NewThread)
    /\ audit' = Append(audit, NewAudit)
    /\ IF active_monitors[u] # None
         THEN Answer("start", u, "already_active")
         ELSE Enter("start", u, "insert", Len(monitors) + 1)
    /\ UNCHANGED <<active_monitors, predictions, database_loads>>
    /\ UNCHANGED <<fitbit, now, loops, emitted>>

\* if user_id in services.active_monitors: return already_active;
\* monitor = services.RealTimeStressMonitor(...), which raises or returns.
StartCheck(u) ==
    /\ StartActs(u)
    /\ \/ /\ active_monitors[u] # None
          /\ Answer("start", u, "already_active")
          /\ UNCHANGED <<monitors, threads, audit>>
       \/ /\ active_monitors[u] = None
          /\ Answer("start", u, "error")
          /\ UNCHANGED <<monitors, threads, audit>>
       \/ /\ active_monitors[u] = None
          /\ monitors' = Append(monitors, NewMonitor(u))
          /\ threads' = Append(threads, NewThread)
          /\ audit' = Append(audit, NewAudit)
          /\ Enter("start", u, "insert", Len(monitors) + 1)
    /\ UNCHANGED <<active_monitors, predictions, database_loads>>
    /\ UNCHANGED <<fitbit, now, loops, emitted>>

\* services.active_monitors[user_id] = monitor; then start_monitoring's test
\* "if not self.active", which a fresh monitor passes.
StartInsert(c) ==
    /\ At(c, "start", "insert")
    /\ active_monitors' = [active_monitors EXCEPT ![calls[c].user] = calls[c].monitor]
    /\ IF ~monitors[calls[c].monitor].active
         THEN Step(c, "sm_set")
         ELSE Return(c, "success", NoLatest)
    /\ StartActs(calls[c].user)
    /\ UNCHANGED <<monitors, threads, predictions, database_loads, audit>>
    /\ UNCHANGED <<fitbit, now, loops, emitted>>

\* start_monitoring: self.active = True
StartMonitoringSet(c) ==
    /\ At(c, "start", "sm_set")
    /\ monitors' = [monitors EXCEPT ![calls[c].monitor].active = TRUE]
    /\ Step(c, "sm_spawn")
    /\ StartActs(calls[c].user)
    /\ UNCHANGED <<active_monitors, threads, predictions, database_loads, audit>>
    /\ UNCHANGED <<fitbit, now, loops, emitted>>

\* start_monitoring: self.monitoring_thread.start(), which raises RuntimeError
\* when no thread can be created; start_realtime then returns success, or the
\* error response from its except clause.
StartMonitoringSpawn(c) ==
    /\ At(c, "start", "sm_spawn")
    /\ StartActs(calls[c].user)
    /\ \/ /\ threads' = [threads EXCEPT ![calls[c].monitor].pc = "top"]
          /\ Return(c, "success", NoLatest)
       \/ /\ Return(c, "error", NoLatest)
          /\ UNCHANGED threads
    /\ UNCHANGED <<active_monitors, monitors, predictions, database_loads, audit>>
    /\ UNCHANGED <<fitbit, now, loops, emitted>>

\* ---- stop_realtime (routes/main.py)

\* if user_id in services.active_monitors: ... else: return not_active
StopCheck(u) ==
    /\ IF active_monitors[u] # None
         THEN /\ Enter("stop", u, "pop", None)
              /\ UNCHANGED stopDone
         ELSE /\ Answer("stop", u, "not_active")
              /\ stopDone' = [stopDone EXCEPT ![u] = "returned"]
    /\ UNCHANGED <<active_monitors, monitors, threads, predictions, database_loads, audit>>
    /\ UNCHANGED <<fitbit, now, loops, emitted>>

\* stop_realtime emptying the registry (clear() for pop(user_id)).
StopPop_clear_mutant(c) ==
    /\ At(c, "stop", "pop")
    /\ \/ /\ active_monitors[calls[c].user] # None
          /\ calls' = [calls EXCEPT ![c].pc = "stop_monitoring",
                                    ![c].monitor = active_monitors[calls[c].user]]
          /\ active_monitors' = [u \in Users |-> None]
          /\ StopRemoves(calls[c].user)
          /\ UNCHANGED <<responses, issued>>
       \/ /\ active_monitors[calls[c].user] = None
          /\ Return(c, "error", NoLatest)
          /\ UNCHANGED <<active_monitors, stopDone>>
    /\ UNCHANGED <<monitors, threads, predictions, database_loads, audit>>
    /\ UNCHANGED <<fitbit, now, loops, emitted>>

\* stop_realtime reading the entry (active_monitors[user_id]) without removing it.
StopPop_mutant(c) ==
    /\ At(c, "stop", "pop")
    /\ active_monitors[calls[c].user] # None
    /\ calls' = [calls EXCEPT ![c].pc = "stop_monitoring",
                              ![c].monitor = active_monitors[calls[c].user]]
    /\ StopRemoves(calls[c].user)
    /\ UNCHANGED <<active_monitors, responses, issued>>
    /\ UNCHANGED <<monitors, threads, predictions, database_loads, audit>>
    /\ UNCHANGED <<fitbit, now, loops, emitted>>

\* monitor = services.active_monitors.pop(user_id): KeyError when the key is
\* gone, which the handler's except clause turns into the error response.
StopPop(c) ==
    /\ At(c, "stop", "pop")
    /\ \/ /\ active_monitors[calls[c].user] # None
          /\ calls' = [calls EXCEPT ![c].pc = "stop_monitoring",
                                    ![c].monitor = active_monitors[calls[c].user]]
          /\ active_monitors' = [active_monitors EXCEPT ![calls[c].user] = None]
          /\ StopRemoves(calls[c].user)
          /\ UNCHANGED <<responses, issued>>
       \/ /\ active_monitors[calls[c].user] = None
          /\ Return(c, "error", NoLatest)
          /\ UNCHANGED <<active_monitors, stopDone>>
    /\ UNCHANGED <<monitors, threads, predictions, database_loads, audit>>
    /\ UNCHANGED <<fitbit, now, loops, emitted>>

\* stop_monitoring that only logs.
stop_monitoring_mutant(m, r) ==
    UNCHANGED <<monitors, audit, threads>>

\* RealTimeStressMonitor.stop_monitoring: self.active = False.  The first
\* stop that clears a set flag is noted, with the rows stored so far; it
\* arrives with r seconds left of a time.sleep the loop is in.
stop_monitoring(m, r) ==
    /\ monitors' = [monitors EXCEPT ![m].active = FALSE]
    /\ IF monitors[m].active /\ audit[m].stopAt = -1
         THEN /\ audit' = [audit EXCEPT ![m].stopAt = Stored(m),
                                         ![m].ticksAt = threads[m].ticks]
              /\ threads' = IF threads[m].pc = "sleep"
                              THEN [threads EXCEPT ![m].sleep = r]
                              ELSE threads
         ELSE UNCHANGED <<audit, threads>>

\* monitor.stop_monitoring(); return success
StopMonitoring(c) ==
    /\ At(c, "stop", "stop_monitoring")
    /\ \E r \in 1..SleepError :
         /\ r <= threads[calls[c].monitor].sleep \/ r = 1
         /\ stop_monitoring(calls[c].monitor, r)
    /\ Return(c, "success", NoLatest)
    /\ StopReturns(calls[c].user)
    /\ UNCHANGED <<active_monitors, predictions, database_loads>>
    /\ UNCHANGED <<fitbit, now, loops, emitted>>

\* ---- monitoring_status (routes/main.py)

\* if user_id in services.active_monitors: ... else: return inactive
StatusCheck(u) ==
    /\ IF active_monitors[u] # None
         THEN Enter("status", u, "lookup", None)
         ELSE Answer("status", u, "inactive")
    /\ UNCHANGED <<active_monitors, monitors, threads, predictions, database_loads,
                   stopDone, audit>>
    /\ UNCHANGED <<fitbit, now, loops, emitted>>

\* monitoring_status taking the entry out of the registry (pop for [ ]).
StatusLookup_mutant(c) ==
    /\ At(c, "status", "lookup")
    /\ \/ /\ active_monitors[calls[c].user] # None
          /\ calls' = [calls EXCEPT ![c].pc = "get_latest",
                                    ![c].monitor = active_monitors[calls[c].user]]
          /\ active_monitors' = [active_monitors EXCEPT ![calls[c].user] = None]
          /\ UNCHANGED <<responses, issued>>
       \/ /\ active_monitors[calls[c].user] = None
          /\ Return(c, "error", NoLatest)
          /\ UNCHANGED active_monitors
    /\ UNCHANGED <<monitors, threads, predictions, database_loads, stopDone, audit>>
    /\ UNCHANGED <<fitbit, now, loops, emitted>>

\* monitor = services.active_monitors[user_id]: KeyError when the key is gone.
StatusLookup(c) ==
    /\ At(c, "status", "lookup")
    /\ \/ /\ active_monitors[calls[c].user] # None
          /\ calls' = [calls EXCEPT ![c].pc = "get_latest",
                                    ![c].monitor = active_monitors[calls[c].user]]
          /\ UNCHANGED <<responses, issued>>
       \/ /\ active_monitors[calls[c].user] = None
          /\ Return(c, "error", NoLatest)
    /\ UNCHANGED <<active_monitors, monitors, threads, predictions, database_loads,
                   stopDone, audit>>
    /\ UNCHANGED <<fitbit, now, loops, emitted>>

\* latest_data = monitor.get_latest_data(); return active
StatusGetLatest(c) ==
    /\ At(c, "status", "get_latest")
    /\ Return(c, "active", get_latest_data(monitors[calls[c].monitor]))
    /\ UNCHANGED <<active_monitors, monitors, threads, predictions, database_loads,
                   stopDone, audit>>
    /\ UNCHANGED <<fitbit, now, loops, emitted>>

\* ---- RealTimeStressMonitor._monitoring_loop (services.py)

\* The loop was started and has not exited.
Live(m) == threads[m].pc \notin {"none", "done"}

\* The loop as "while True": the flag is not tested.
LoopTop_mutant(m) ==
    /\ threads[m].pc \in {"top", "sleep"}
    /\ TicksBegun(Len(threads)) < MaxTicks
    /\ threads' = [threads EXCEPT ![m].pc = "read", ![m].ticks = @ + 1, ![m].sleep = 0]
    /\ UNCHANGED <<active_monitors, monitors, calls, responses, issued, predictions,
                   database_loads, stopDone, audit>>
    /\ UNCHANGED <<fitbit, now, loops, emitted>>

\* while self.active: on entry, and again when time.sleep returns.  The
\* seconds slept after a noted stop are added to the audit.
LoopTop(m) ==
    /\ threads[m].pc \in {"top", "sleep"}
    /\ IF monitors[m].active
         THEN /\ TicksBegun(Len(threads)) < MaxTicks
              /\ threads' = [threads EXCEPT ![m].pc = "read", ![m].ticks = @ + 1,
                                            ![m].sleep = 0]
         ELSE threads' = [threads EXCEPT ![m].pc = "done", ![m].sleep = 0]
    /\ audit' = IF audit[m].stopAt # -1
                  THEN [audit EXCEPT ![m].sinceStop = @ + threads[m].sleep]
                  ELSE audit
    /\ UNCHANGED <<active_monitors, monitors, calls, responses, issued, predictions,
                   database_loads, stopDone>>
    /\ UNCHANGED <<fitbit, now, loops, emitted>>

\* The loop without its outer except clause: a failed read ends the thread.
LoopRead_mutant(m) ==
    /\ threads[m].pc = "read"
    /\ \/ \E r \in Readings :
            /\ monitors' = [monitors EXCEPT ![m].latest_sensor_data = r]
            /\ threads' = IF monitors[m].ml_service /\ monitors[m].database
                            THEN [threads EXCEPT ![m].pc = "store", ![m].sensor_data = r]
                            ELSE [threads EXCEPT ![m].pc = "sleep", ![m].sleep = SleepNormal]
            /\ UNCHANGED audit
       \/ /\ threads' = [threads EXCEPT ![m].pc = "done"]
          /\ UNCHANGED monitors
          /\ audit' = [audit EXCEPT ![m].faulted = TRUE]
    /\ UNCHANGED <<active_monitors, calls, responses, issued, predictions, database_loads,
                   stopDone>>
    /\ UNCHANGED <<fitbit, now, loops, emitted>>

\* sensor_data = self._get_live_sensor_data(); self.latest_sensor_data =
\* sensor_data; then the test of self.ml_service and self.database.  A failed
\* read reaches the outer except clause and its time.sleep(5).
LoopRead(m) ==
    /\ threads[m].pc = "read"
    /\ \/ \E r \in Readings :
            /\ monitors' = [monitors EXCEPT ![m].latest_sensor_data = r]
            /\ threads' = IF monitors[m].ml_service /\ monitors[m].database
                            THEN [threads EXCEPT ![m].pc = "store", ![m].sensor_data = r]
                            ELSE [threads EXCEPT ![m].pc = "sleep", ![m].sleep = SleepNormal]
            /\ UNCHANGED audit
       \/ /\ threads' = [threads EXCEPT ![m].pc = "sleep", ![m].sleep = SleepError]
          /\ UNCHANGED monitors
          /\ audit' = [audit EXCEPT ![m].faulted = TRUE]
    /\ UNCHANGED <<active_monitors, calls, responses, issued, predictions, database_loads,
                   stopDone>>
    /\ UNCHANGED <<fitbit, now, loops, emitted>>

\* Whether an insert can succeed: it may always fail, and does on a full table.
Oks == IF Len(predictions) < MaxRows THEN BOOLEAN ELSE {FALSE}

\* store_prediction whose insert is never committed.
store_prediction_mutant(stress_level, confidence, features, user_id, model_used, caller, tick, ok) ==
    predictions' = predictions

\* A sink that puts the new row before the rows there.
store_prediction_first_mutant(stress_level, confidence, features, user_id, model_used, caller, tick, ok) ==
    predictions' = IF ok
                     THEN <<prediction_row(stress_level, confidence, features,
                                           user_id, model_used, caller, tick)>>
                          \o predictions
                     ELSE predictions

\* database.store_prediction: inserts one row, or fails and inserts none (it
\* logs and returns None on any database error).
store_prediction(stress_level, confidence, features, user_id, model_used, caller, tick, ok) ==
    predictions' = IF ok
                     THEN Append(predictions,
                                 prediction_row(stress_level, confidence, features,
                                                user_id, model_used, caller, tick))
                     ELSE predictions

\* The loop with a sink whose failure clears the running flag.
LoopStore_flag_mutant(m) ==
    /\ threads[m].pc = "store"
    /\ \E ok \in Oks :
         /\ LET prediction == predict_stress(threads[m].sensor_data)
            IN  store_prediction(prediction.stress_level, prediction.confidence,
                                 threads[m].sensor_data, monitors[m].user,
                                 prediction.model_used, Caller("_monitoring_loop", m),
                                 threads[m].ticks, ok)
         /\ audit' = IF ok THEN audit ELSE [audit EXCEPT ![m].faulted = TRUE]
         /\ monitors' = IF ok THEN monitors ELSE [monitors EXCEPT ![m].active = FALSE]
    /\ threads' = [threads EXCEPT ![m].pc = "sleep", ![m].sleep = SleepNormal,
                                  ![m].sensor_data = NoData]
    /\ UNCHANGED <<active_monitors, calls, responses, issued, database_loads, stopDone>>
    /\ UNCHANGED <<fitbit, now, loops, emitted>>

\* The loop with a sink whose failure ends the thread.
LoopStore_mutant(m) ==
    /\ threads[m].pc = "store"
    /\ \E ok \in Oks :
         /\ LET prediction == predict_stress(threads[m].sensor_data)
            IN  store_prediction(prediction.stress_level, prediction.confidence,
                                 threads[m].sensor_data, monitors[m].user,
                                 prediction.model_used, Caller("_monitoring_loop", m),
                                 threads[m].ticks, ok)
         /\ threads' = IF ok
                         THEN [threads EXCEPT ![m].pc = "sleep", ![m].sleep = SleepNormal,
                                              ![m].sensor_data = NoData]
                         ELSE [threads EXCEPT ![m].pc = "done", ![m].sensor_data = NoData]
         /\ audit' = IF ok THEN audit ELSE [audit EXCEPT ![m].faulted = TRUE]
    /\ UNCHANGED <<active_monitors, monitors, calls, responses, issued, database_loads,
                   stopDone>>
    /\ UNCHANGED <<fitbit, now, loops, emitted>>

\* prediction = self.ml_service.predict_stress(sensor_data);
\* self.database.store_prediction(...) inside its own try; no socketio is
\* bound by start_realtime, so the tick goes on to time.sleep(3).
LoopStore(m) ==
    /\ threads[m].pc = "store"
    /\ \E ok \in Oks :
         /\ LET prediction == predict_stress(threads[m].sensor_data)
            IN  store_prediction(prediction.stress_level, prediction.confidence,
                                 threads[m].sensor_data, monitors[m].user,
                                 prediction.model_used, Caller("_monitoring_loop", m),
                                 threads[m].ticks, ok)
         /\ audit' = IF ok THEN audit ELSE [audit EXCEPT ![m].faulted = TRUE]
    /\ threads' = [threads EXCEPT ![m].pc = "sleep", ![m].sleep = SleepNormal,
                                  ![m].sensor_data = NoData]
    /\ UNCHANGED <<active_monitors, monitors, calls, responses, issued, database_loads,
                   stopDone>>
    /\ UNCHANGED <<fitbit, now, loops, emitted>>

\* ---- generate_test_data (routes/main.py)

Labels == {"baseline", "stress", "amusement"}

\* random.uniform(0.6, 0.95), at its ends.
GenConfidences == {60, 95}

\* The arguments of one iteration: random.choice of the label, the random
\* confidence, and random.randint(60, 100) for the heart rate.
GenArgs == [stress_level : Labels, confidence : GenConfidences, heart_rate : {80}]

\* The whole handler: range(10) calls of database.store_prediction(
\* stress_level, confidence, features, user_id, 'ANN', []), of which the
\* first k insert their row and the others fail; then return success.
GenerateTestData(u) ==
    /\ \E k \in 0..GenCount :
         /\ Len(predictions) + k <= MaxRows
         /\ \E args \in [1..k -> GenArgs] :
              predictions' = predictions \o
                  [i \in 1..k |-> prediction_row(args[i].stress_level, args[i].confidence,
                                                  args[i], u, "ANN",
                                                  Caller("generate_test_data", None), 0)]
    /\ UNCHANGED <<calls, responses, issued, monitoring, fitbit, now, loops, emitted>>

\* ---- FitbitBackgroundSync (services/fitbit_service.py), eventlet greenthreads

\* FitbitDataService.get_stress_score_from_hrv: of its six values, the ones
\* above, at and below the 0.6 that decides the label.
HrvStressScores == {80, 60, 50}

\* fitbit_start_sync -> start_sync(current_user): nothing when already running,
\* else the flag is set and the loop spawned; self.greenthread now refers to
\* the new greenthread, and one it referred to before, if alive, lives on
\* unreferenced.
FitbitStartSync(u) ==
    /\ IF sync.running
         THEN UNCHANGED sync
         ELSE sync' = [running |-> TRUE, greenthread |-> "alive", user |-> u,
                       unreferenced |-> sync.unreferenced
                                          + (IF sync.greenthread = "alive" THEN 1 ELSE 0)]
    /\ UNCHANGED <<calls, responses, issued, predictions, monitoring, now, loops, emitted>>

\* A stop_sync that clears the flag and kills nothing.
FitbitStopSync_mutant ==
    /\ sync' = [sync EXCEPT !.running = FALSE]
    /\ UNCHANGED <<calls, responses, issued, predictions, monitoring, now, loops, emitted>>

\* fitbit_stop_sync -> stop_sync(): the flag is cleared and the greenthread killed.
FitbitStopSync ==
    /\ sync' = [sync EXCEPT !.running = FALSE,
                            !.greenthread = IF @ = "none" THEN "none" ELSE "dead"]
    /\ UNCHANGED <<calls, responses, issued, predictions, monitoring, now, loops, emitted>>

\* One pass of _sync_loop: while self.running; when the streamed data come
\* from Fitbit, the HRV stress score is stored as the confidence, labelled
\* stress above 0.6 and baseline otherwise.
FitbitSyncLoop ==
    /\ sync.greenthread = "alive"
    /\ IF sync.running
         THEN /\ \E from_fitbit \in BOOLEAN, hrv_score \in HrvStressScores, ok \in Oks :
                   store_prediction(IF hrv_score > 60 THEN "stress" ELSE "baseline",
                                    hrv_score, [heart_rate |-> 70], sync.user,
                                    "Fitbit_Sync", Caller("FitbitBackgroundSync", None), 0,
                                    from_fitbit /\ ok)
              /\ UNCHANGED sync
         ELSE /\ sync' = [sync EXCEPT !.greenthread = "dead"]
              /\ UNCHANGED predictions
    /\ UNCHANGED <<calls, responses, issued, monitoring, now, loops, emitted>>

\* ---- FitbitSyncService (services/fitbit_sync.py), threads

\* One pass of the loop thread of an instance started for user u (the
\* application constructs none): when heart-rate data came back,
\* store_prediction('baseline', 0.5, ...).
SyncServiceLoop(u) ==
    /\ \E hr_data \in BOOLEAN, ok \in Oks :
         store_prediction("baseline", 50, [heart_rate |-> 70], u,
                          "Fitbit_Sync", Caller("FitbitSyncService", None), 0,
                          hr_data /\ ok)
    /\ UNCHANGED <<calls, responses, issued, monitoring, sync, now, loops, emitted>>

\* ----------------------------------------------------------- specification

Next ==
    \/ \E u \in Users : StartCheck(u)
    \/ \E c \in Calls : StartInsert(c)
    \/ \E c \in Calls : StartMonitoringSet(c)
    \/ \E c \in Calls : StartMonitoringSpawn(c)
    \/ \E u \in Users : StopCheck(u)
    \/ \E c \in Calls : StopPop(c)
    \/ \E c \in Calls : StopMonitoring(c)
    \/ \E u \in Users : StatusCheck(u)
    \/ \E c \in Calls : StatusLookup(c)
    \/ \E c \in Calls : StatusGetLatest(c)
    \/ \E m \in Monitors : LoopTop(m)
    \/ \E m \in Monitors : LoopRead(m)
    \/ \E m \in Monitors : LoopStore(m)

Spec == Init /\ [][Next]_vars

\* The callers of store_prediction: the monitoring loops, generate_test_data
\* and the two Fitbit synchronisation loops.
NextStore ==
    \/ \E m \in Monitors : LoopTop(m)
    \/ \E m \in Monitors : LoopRead(m)
    \/ \E m \in Monitors : LoopStore(m)
    \/ \E u \in Users : GenerateTestData(u)
    \/ \E u \in Users : FitbitStartSync(u)
    \/ FitbitStopSync
    \/ FitbitSyncLoop
    \/ \E u \in Users : SyncServiceLoop(u)

SpecStore == Init /\ [][NextStore]_vars

\* ---- MLService.predict_stress as a function of its argument

\* Arguments of predict_stress: readings on each side of the thresholds, with
\* keys absent and values that are no numbers, and an argument that is no dict.
SensorInputs ==
    [heart_rate : {70, 75, 80, 90, 95, Absent, Bad},
     eda        : {30, 50, 60, 70, 80, Absent, Bad}]
        \cup {[heart_rate |-> NotADict, eda |-> NotADict]}

\* A call of services.ml_service.predict_stress(sensor_data), its result kept.
PredictStress ==
    /\ Cardinality(responses) < MaxCalls
    /\ \E sensor_data \in SensorInputs :
         responses' = responses \cup {[op |-> "predict_stress", sensor_data |-> sensor_data,
                                       result |-> predict_stress(sensor_data)]}
    /\ UNCHANGED <<calls, issued, predictions, monitoring, fitbit, now, loops, emitted>>

NextPredict == PredictStress

SpecPredict == Init /\ [][NextPredict]_vars

\* ---- the predictions table over time (database.py)

\* clean_old_predictions(days=30): the default retention.
DefaultDays == 30

\* The days a caller of clean_old_predictions passes.
DaysArgs == {0, 1, DefaultDays}

\* A day passes on the wall clock.
TimePasses ==
    /\ now < MaxDays
    /\ now' = now + 1
    /\ UNCHANGED <<calls, responses, issued, predictions, monitoring, fitbit, loops, emitted>>

\* The rows DELETE FROM predictions WHERE timestamp < cutoff leaves.
RowsKept(cutoff) == SelectSeq(predictions, LAMBDA row : ~(row.timestamp < cutoff))

\* A cleanup whose DELETE has no WHERE clause.
clean_old_predictions_mutant(days) ==
    /\ predictions' = <<>>
    /\ UNCHANGED <<calls, responses, issued, monitoring, fitbit, now, loops, emitted>>

\* database.clean_old_predictions(days): cutoff = now - days, the rows with
\* an earlier timestamp are deleted; on an exception nothing is committed.
clean_old_predictions(days) ==
    /\ \E ok \in BOOLEAN :
         LET cutoff == now - days
         IN  predictions' = IF ok THEN RowsKept(cutoff) ELSE predictions
    /\ UNCHANGED <<calls, responses, issued, monitoring, fitbit, now, loops, emitted>>

NextRecords ==
    \/ \E m \in Monitors : LoopTop(m)
    \/ \E m \in Monitors : LoopRead(m)
    \/ \E m \in Monitors : LoopStore(m)
    \/ \E u \in Users : SyncServiceLoop(u)
    \/ TimePasses
    \/ \E days \in DaysArgs : clean_old_predictions(days)

SpecRecords == Init /\ [][NextRecords]_vars

\* ---- RealTimeStressMonitor used directly (services.py)

\* RealTimeStressMonitor.__init__(user, ml_service_instance, socketio_instance):
\* the services bound or None, self.database None when the import fails.
RealTimeStressMonitor(user, ml_service_instance, socketio_instance) ==
    [user |-> user, ml_service |-> ml_service_instance, socketio |-> socketio_instance,
     active |-> FALSE, latest_sensor_data |-> NoData, database |-> database_loads]

\* A monitor has been constructed for user "u1", with or without a prediction
\* service and a socketio, and not started.
InitMonitor ==
    /\ database_loads \in BOOLEAN
    /\ active_monitors = [u \in Users |-> None]
    /\ \E ml_service_instance, socketio_instance \in BOOLEAN :
         monitors = <<RealTimeStressMonitor("u1", ml_service_instance, socketio_instance)>>
    /\ threads = <<NewThread>>
    /\ audit = <<NewAudit>>
    /\ calls = <<>>
    /\ responses = {}
    /\ issued = 0
    /\ predictions = <<>>
    /\ stopDone = [u \in Users |-> "no"]
    /\ sync = [running |-> FALSE, greenthread |-> "none", user |-> "none",
               unreferenced |-> 0]
    /\ now = 0
    /\ loops = <<>>
    /\ emitted = <<>>

Loops == 1..Len(loops)

\* The frame of the steps made on a monitor object directly.
direct == <<active_monitors, threads, audit, calls, responses, issued, database_loads,
            stopDone, sync, now>>

\* Ticks begun so far by the threads 1..t.
RECURSIVE LoopTicks(_)
LoopTicks(t) == IF t = 0 THEN 0 ELSE loops[t].ticks + LoopTicks(t - 1)

\* start_monitoring: if not self.active.  A set flag ends the call; a clear
\* one lets the caller go on.  read_failed notes whether the read of the
\* thread's current tick raised.
StartMonitoringTest(m) ==
    /\ IF monitors[m].active
         THEN UNCHANGED loops
         ELSE /\ Len(loops) < MaxLoops
              /\ loops' = Append(loops, [monitor |-> m, pc |-> "passed",
                                         sensor_data |-> NoData, ticks |-> 0,
                                         read_failed |-> FALSE])
    /\ UNCHANGED <<monitors, predictions, emitted, direct>>

\* start_monitoring: self.active = True; threading.Thread(
\* target=self._monitoring_loop).start().
StartMonitoringStart(t) ==
    /\ loops[t].pc = "passed"
    /\ monitors' = [monitors EXCEPT ![loops[t].monitor].active = TRUE]
    /\ loops' = [loops EXCEPT ![t].pc = "top"]
    /\ UNCHANGED <<predictions, emitted, direct>>

\* stop_monitoring: self.active = False.
StopMonitoringDirect(m) ==
    /\ monitors' = [monitors EXCEPT ![m].active = FALSE]
    /\ UNCHANGED <<loops, predictions, emitted, direct>>

\* while self.active:
MonitorLoopWhile(t) ==
    /\ loops[t].pc = "top"
    /\ IF monitors[loops[t].monitor].active
         THEN /\ LoopTicks(Len(loops)) < MaxTicks
              /\ loops' = [loops EXCEPT ![t].pc = "read", ![t].ticks = @ + 1,
                                          ![t].read_failed = FALSE]
         ELSE loops' = [loops EXCEPT ![t].pc = "done"]
    /\ UNCHANGED <<monitors, predictions, emitted, direct>>

\* The loop that tests the prediction service only.
MonitorLoopRead_service_mutant(t) ==
    /\ loops[t].pc = "read"
    /\ LET monitor == monitors[loops[t].monitor]
       IN  \/ \E r \in Readings :
                /\ monitors' = [monitors EXCEPT ![loops[t].monitor].latest_sensor_data = r]
                /\ loops' = IF monitor.ml_service
                              THEN [loops EXCEPT ![t].pc = "store", ![t].sensor_data = r]
                              ELSE [loops EXCEPT ![t].pc = "sleep"]
           \/ /\ loops' = [loops EXCEPT ![t].pc = "sleep", ![t].read_failed = TRUE]
              /\ UNCHANGED monitors
    /\ UNCHANGED <<predictions, emitted, direct>>

\* The loop that tests the services before it keeps the reading.
MonitorLoopRead_mutant(t) ==
    /\ loops[t].pc = "read"
    /\ LET monitor == monitors[loops[t].monitor]
       IN  \/ \E r \in Readings :
                IF monitor.ml_service /\ monitor.database
                  THEN /\ monitors' = [monitors EXCEPT
                                         ![loops[t].monitor].latest_sensor_data = r]
                       /\ loops' = [loops EXCEPT ![t].pc = "store", ![t].sensor_data = r]
                  ELSE /\ UNCHANGED monitors
                       /\ loops' = [loops EXCEPT ![t].pc = "sleep"]
           \/ /\ loops' = [loops EXCEPT ![t].pc = "sleep", ![t].read_failed = TRUE]
              /\ UNCHANGED monitors
    /\ UNCHANGED <<predictions, emitted, direct>>

\* sensor_data = self._get_live_sensor_data();
\* self.latest_sensor_data = sensor_data; if self.ml_service and
\* self.database; or the outer except and its wait.
MonitorLoopRead(t) ==
    /\ loops[t].pc = "read"
    /\ LET monitor == monitors[loops[t].monitor]
       IN  \/ \E r \in Readings :
                /\ monitors' = [monitors EXCEPT ![loops[t].monitor].latest_sensor_data = r]
                /\ loops' = IF monitor.ml_service /\ monitor.database
                              THEN [loops EXCEPT ![t].pc = "store", ![t].sensor_data = r]
                              ELSE [loops EXCEPT ![t].pc = "sleep"]
           \/ /\ loops' = [loops EXCEPT ![t].pc = "sleep", ![t].read_failed = TRUE]
              /\ UNCHANGED monitors
    /\ UNCHANGED <<predictions, emitted, direct>>

\* predict_stress and store_prediction of the tick; then the emit when a
\* socketio is bound, else time.sleep(3).
MonitorLoopStore(t) ==
    /\ loops[t].pc = "store"
    /\ LET monitor == monitors[loops[t].monitor]
           prediction == predict_stress(loops[t].sensor_data)
       IN  /\ \E ok \in Oks :
                store_prediction(prediction.stress_level, prediction.confidence,
                                 loops[t].sensor_data, monitor.user, prediction.model_used,
                                 Caller("_monitoring_loop", loops[t].monitor),
                                 loops[t].ticks, ok)
           /\ loops' = IF monitor.socketio
                         THEN [loops EXCEPT ![t].pc = "emit"]
                         ELSE [loops EXCEPT ![t].pc = "sleep", ![t].sensor_data = NoData]
    /\ UNCHANGED <<monitors, emitted, direct>>

\* The message of self.socketio.emit('real_time_update', {...},
\* room=f'user_{self.user.id}'); delivered is whether the call returned.
real_time_update(monitor, sensor_data, thread, tick, delivered) ==
    LET prediction == predict_stress(sensor_data)
    IN  [event        |-> "real_time_update",
         room         |-> monitor.user,
         stress_level |-> prediction.stress_level,
         confidence   |-> prediction.confidence,
         sensor_data  |-> sensor_data,
         thread       |-> thread,
         tick         |-> tick,
         delivered    |-> delivered]

\* An emit to every client instead of the room of the user.
MonitorLoopEmit_mutant(t) ==
    /\ loops[t].pc = "emit"
    /\ \E delivered \in BOOLEAN :
         emitted' = Append(emitted,
                           [real_time_update(monitors[loops[t].monitor], loops[t].sensor_data,
                                             t, loops[t].ticks, delivered)
                              EXCEPT !.room = "broadcast"])
    /\ loops' = [loops EXCEPT ![t].pc = "sleep", ![t].sensor_data = NoData]
    /\ UNCHANGED <<monitors, predictions, direct>>

\* self.socketio.emit(...) inside its own try, then time.sleep(3).
MonitorLoopEmit(t) ==
    /\ loops[t].pc = "emit"
    /\ \E delivered \in BOOLEAN :
         emitted' = Append(emitted,
                           real_time_update(monitors[loops[t].monitor], loops[t].sensor_data,
                                            t, loops[t].ticks, delivered))
    /\ loops' = [loops EXCEPT ![t].pc = "sleep", ![t].sensor_data = NoData]
    /\ UNCHANGED <<monitors, predictions, direct>>

\* The time.sleep returns and the loop is at its while again.
MonitorLoopWake(t) ==
    /\ loops[t].pc = "sleep"
    /\ loops' = [loops EXCEPT ![t].pc = "top"]
    /\ UNCHANGED <<monitors, predictions, emitted, direct>>

NextMonitor ==
    \/ \E m \in Monitors : StartMonitoringTest(m)
    \/ \E t \in Loops : StartMonitoringStart(t)
    \/ \E m \in Monitors : StopMonitoringDirect(m)
    \/ \E t \in Loops : MonitorLoopWhile(t)
    \/ \E t \in Loops : MonitorLoopRead(t)
    \/ \E t \in Loops : MonitorLoopStore(t)
    \/ \E t \in Loops : MonitorLoopEmit(t)
    \/ \E t \in Loops : MonitorLoopWake(t)

SpecMonitor == InitMonitor /\ [][NextMonitor]_vars

\* ---- a session and the stop requests for it

NextSession ==
    \/ \E u \in Users : StopCheck(u)
    \/ \E c \in Calls : StopPop(c)
    \/ \E c \in Calls : StopMonitoring(c)
    \/ \E m \in Monitors : LoopTop(m)
    \/ \E m \in Monitors : LoopRead(m)
    \/ \E m \in Monitors : LoopStore(m)

SpecSession == Init /\ [][NextSession]_vars

\* ---- the process-wide FitbitBackgroundSync alone

NextSync ==
    \/ \E u \in Users : FitbitStartSync(u)
    \/ FitbitStopSync
    \/ FitbitSyncLoop

SpecSync == Init /\ [][NextSync]_vars

\* ------------------------------------------------------------------ claims

StartResponses(u, result) ==
    {r \in responses : r.op = "start" /\ r.user = u /\ r.result = result}

\* No stop for user u has been issued.
NoStop(u) ==
    /\ \A c \in Calls : ~(calls[c].op = "stop" /\ calls[c].user = u)
    /\ \A r \in responses : ~(r.op = "stop" /\ r.user = u)

\* The monitors of user u whose loop was started and has not exited.
LiveSessions(u) == {m \in Monitors : monitors[m].user = u /\ Live(m)}

\* C1: as long as only start requests are made for a user, however they
\* interleave, at most one monitoring loop runs for the user and at most one
\* of the requests reports success (started).
C1_ConcurrentStartsOneSession ==
    \A u \in Users :
        NoStop(u) => /\ Cardinality(LiveSessions(u)) <= 1
                     /\ Cardinality(StartResponses(u, "success")) <= 1

\* C2: in every reachable state each user has at most one live monitoring
\* session, a loop that was started and has not yet exited.
C2_AtMostOneLiveSession ==
    \A u \in Users : Cardinality(LiveSessions(u)) <= 1

\* C3: a status request whose membership test runs after a stop for the same
\* user has returned, with no step of a start for that user since that stop
\* removed the entry or found none, answers inactive (it never goes on to look
\* the monitor up).
C3_StopThenStatusInactive ==
    /\ \A r \in responses : r.op = "status" /\ r.afterStop => r.result = "inactive"
    /\ \A c \in Calls : ~(calls[c].op = "status" /\ calls[c].afterStop)

\* C3 witness: a status after a successful stop answered inactive while the
\* stopped session's loop is in the middle of a tick.
C3_Witness ==
    \E r \in responses, q \in responses :
        /\ r.op = "status" /\ r.afterStop /\ r.result = "inactive"
        /\ q.op = "stop" /\ q.user = r.user /\ q.result = "success"
        /\ threads[q.monitor].pc = "store"

\* C4: a start request that finds a session registered for its user answers
\* already_active and changes neither the registry, nor any monitor, nor any
\* monitoring thread; no monitor is constructed.
C4_StartWhenActiveNoEffect ==
    [][\A u \in Users :
          StartCheck(u) /\ active_monitors[u] # None =>
              /\ active_monitors' = active_monitors
              /\ monitors' = monitors
              /\ threads' = threads
              /\ calls' = calls
              /\ predictions' = predictions
              /\ \E r \in responses' : r.op = "start" /\ r.user = u
                                       /\ r.result = "already_active"]_vars

\* C4 witness: a start was answered already_active while the session it found
\* is still the registered one.
C4_Witness ==
    \E r \in responses :
        /\ r.op = "start" /\ r.result = "already_active"
        /\ active_monitors[r.user] # None

\* C5: the stop handler's pop removes exactly the entry of its user, its
\* stop_monitoring clears the running flag of the monitor it removed and the
\* request answers success (stopped); a stop that finds no entry answers
\* not_active and leaves the registry as it was.
C5_StopEffect ==
    [][/\ \A c \in Calls :
            StopPop(c) /\ active_monitors[calls[c].user] # None =>
                active_monitors' = [active_monitors EXCEPT ![calls[c].user] = None]
       /\ \A c \in Calls :
            StopMonitoring(c) =>
                /\ ~monitors'[calls[c].monitor].active
                /\ active_monitors' = active_monitors
                /\ \E r \in responses' : /\ r.op = "stop" /\ r.result = "success"
                                         /\ r.monitor = calls[c].monitor
       /\ \A u \in Users :
            active_monitors[u] = None /\ StopCheck(u) =>
                /\ active_monitors' = active_monitors
                /\ \E r \in responses' : r.op = "stop" /\ r.user = u
                                         /\ r.result = "not_active"]_vars

\* C5 witness: one stop removed and stopped a running session, another found
\* nothing for its user and answered not_active.
C5_Witness ==
    \E r \in responses, q \in responses :
        /\ r.op = "stop" /\ r.result = "success"
        /\ active_monitors[r.user] = None /\ ~monitors[r.monitor].active
        /\ audit[r.monitor].stopAt # -1
        /\ q.op = "stop" /\ q.result = "not_active"

\* C6: every stop request answers success (stopped) or not_active, never error.
C6_StopNeverErrors ==
    \A r \in responses : r.op = "stop" => r.result \in {"success", "not_active"}

\* C7: a start request that answered error has left no entry behind: the
\* monitor it constructed, if any, is not in the registry.
C7_FailedStartLeavesNoEntry ==
    \A r \in responses :
        r.op = "start" /\ r.result = "error" /\ r.monitor # None =>
            active_monitors[r.user] # r.monitor

\* C8: once stop_monitoring has cleared the set flag of a session, its loop
\* begins no further tick and stores at most one more row (that of the tick
\* in flight), and a loop that has exited stays exited.
C8_NoNewTickAfterStop ==
    \A m \in Monitors :
        audit[m].stopAt # -1 =>
            /\ threads[m].ticks = audit[m].ticksAt
            /\ Stored(m) <= audit[m].stopAt + 1

\* C8 witness: the tick in flight at the stop ran to completion, storing its
\* row after the stop, and the loop then exited.
C8_Witness ==
    \E m \in Monitors :
        /\ audit[m].stopAt # -1
        /\ Stored(m) = audit[m].stopAt + 1
        /\ threads[m].pc = "done"

\* C9: a loop that exits after a stop does so within one tick period of the stop.
C9_ExitWithinTickPeriod ==
    \A m \in Monitors :
        audit[m].stopAt # -1 /\ threads[m].pc = "done" =>
            audit[m].sinceStop <= TickPeriod

\* C10: every row of the predictions table has stress_score equal to its
\* probability (the confidence) when its prediction (the label) is "stress",
\* and to 1 - probability for every other label.
C10_StressScore ==
    \A i \in 1..Len(predictions) :
        LET row == predictions[i]
        IN  /\ row.prediction = "stress" => row.stress_score = row.probability
            /\ row.prediction # "stress" => row.stress_score = 100 - row.probability

\* C10 witness: a stress row and a row with another label, stored by
\* different callers, one of them a monitoring loop.
C10_Witness ==
    \E i, j \in 1..Len(predictions) :
        /\ predictions[i].prediction = "stress"
        /\ predictions[j].prediction # "stress"
        /\ predictions[i].caller.name # predictions[j].caller.name
        /\ predictions[i].caller.monitor \in Monitors

\* C11: a tick that leaves its read step having published no reading (the
\* read failed) stores no row, leaves the running flag as it was and goes to
\* the wait, its thread alive; and a loop that leaves the wait with its flag
\* still set begins the next tick.  (A step that goes on to classify and
\* store holds the reading it read.)
C11_ReadFaultSkipsTick ==
    [][\A m \in Monitors :
          /\ threads[m].pc = "read" /\ threads'[m].pc # "read" /\ monitors' = monitors =>
                /\ predictions' = predictions
                /\ threads'[m].pc \in {"sleep", "store"}
                /\ threads'[m].pc = "store" => threads'[m].sensor_data # NoData
          /\ threads[m].pc = "sleep" /\ threads'[m].pc # "sleep" /\ monitors[m].active =>
                /\ threads'[m].pc = "read"
                /\ threads'[m].ticks = threads[m].ticks + 1]_vars

\* C11 witness: the second tick of a session is under way after a first tick
\* whose read failed (no reading was ever published, no row stored).
C11_Witness ==
    \E m \in Monitors :
        /\ threads[m].ticks = 2 /\ threads[m].pc = "read"
        /\ monitors[m].latest_sensor_data = NoData /\ monitors[m].active
        /\ Stored(m) = 0

\* The row the monitoring loop of monitor m stores for the tick it is in.
TickRow(m) ==
    LET prediction == predict_stress(threads[m].sensor_data)
    IN  prediction_row(prediction.stress_level, prediction.confidence,
                       threads[m].sensor_data, monitors[m].user, prediction.model_used,
                       Caller("_monitoring_loop", m), threads[m].ticks)

\* C12: the store step of a tick either adds the row of that tick or, when
\* the sink fails, adds nothing; either way the rows already stored stay, the
\* loop goes on to the normal wait, and the monitors and the registry are as
\* they were (a status still finds the session).
C12_SinkFaultSkipsRecord ==
    [][\A m \in Monitors :
          threads[m].pc = "store" /\ threads'[m] # threads[m] =>
              /\ predictions' \in {predictions, Append(predictions, TickRow(m))}
              /\ threads'[m].pc = "sleep" /\ threads'[m].sleep = SleepNormal
              /\ monitors' = monitors
              /\ active_monitors' = active_monitors]_vars

\* C12 witness: the sink failed on tick 1 of a session and took the row of
\* tick 2, the session is still registered and running, and a status for its
\* user answered active.
C12_Witness ==
    \E m \in Monitors :
        /\ threads[m].ticks = 2 /\ threads[m].pc = "sleep"
        /\ {predictions[i].tick : i \in {j \in 1..Len(predictions) :
                                            predictions[j].caller.monitor = m}} = {2}
        /\ active_monitors[monitors[m].user] = m /\ monitors[m].active
        /\ \E r \in responses : r.op = "status" /\ r.monitor = m /\ r.result = "active"

\* The rows monitor m's loop has stored, in insertion order.
RowsOf(m) == SelectSeq(predictions, LAMBDA row : row.caller.monitor = m)

\* The ticks of monitor m's loop that have run to their wait.
Completed(m) == threads[m].ticks - (IF threads[m].pc \in {"read", "store"} THEN 1 ELSE 0)

\* C13: for a session with a prediction service and a database bound, none of
\* whose ticks met a fault, the table holds exactly one row per completed
\* tick, each for the session's user and with the label and confidence
\* predict_stress gives for a reading with the row's heart rate; and between
\* ticks the label get_latest_data reports is the label of the latest row.
C13_OneRecordPerTick ==
    \A m \in Monitors :
        monitors[m].ml_service /\ monitors[m].database /\ ~audit[m].faulted =>
            /\ Len(RowsOf(m)) = Completed(m)
            /\ \A i \in 1..Len(RowsOf(m)) :
                  /\ RowsOf(m)[i].user_id = monitors[m].user
                  /\ RowsOf(m)[i].tick = i
                  /\ \E r \in Readings :
                        /\ r.heart_rate = RowsOf(m)[i].heart_rate
                        /\ predict_stress(r).stress_level = RowsOf(m)[i].prediction
                        /\ predict_stress(r).confidence = RowsOf(m)[i].probability
            /\ Completed(m) >= 1 /\ threads[m].pc \in {"sleep", "done"} =>
                  /\ get_latest_data(monitors[m]).status = "Active"
                  /\ get_latest_data(monitors[m]).stress_level
                        = RowsOf(m)[Len(RowsOf(m))].prediction

\* C13 witness: a registered, running session has completed two ticks without
\* a fault, its two rows carry different labels, and a status for its user
\* answered active.
C13_Witness ==
    \E m \in Monitors :
        /\ monitors[m].database /\ ~audit[m].faulted /\ monitors[m].active
        /\ active_monitors[monitors[m].user] = m
        /\ Completed(m) = 2 /\ Len(RowsOf(m)) = 2
        /\ RowsOf(m)[1].prediction # RowsOf(m)[2].prediction
        /\ \E r \in responses : r.op = "status" /\ r.monitor = m /\ r.result = "active"

\* The placeholder of get_latest_data.
Placeholder == [stress_level |-> "baseline", confidence |-> 40, status |-> "No data yet"]

\* C14: a status request whose get_latest_data runs on a session none of
\* whose ticks has completed answers with the placeholder (baseline, 0.4,
\* "No data yet").
C14_PlaceholderBeforeFirstTick ==
    [][\A c \in Calls :
          StatusGetLatest(c) /\ Completed(calls[c].monitor) = 0 =>
              \A r \in responses' \ responses : r.latest_data = Placeholder]_vars

\* C15: no step of monitoring_status (the membership test, the lookup,
\* get_latest_data) changes the registry, any monitor (its running flag, its
\* latest reading), any monitoring thread or the predictions table.
C15_StatusReadOnly ==
    [][(\/ \E u \in Users : StatusCheck(u)
        \/ \E c \in Calls : StatusLookup(c)
        \/ \E c \in Calls : StatusGetLatest(c)) =>
           /\ active_monitors' = active_monitors
           /\ monitors' = monitors
           /\ threads' = threads
           /\ predictions' = predictions]_vars

\* C15 witness: a status answered active with the data of a reading, and the
\* session it read is still registered and running.
C15_Witness ==
    \E r \in responses :
        /\ r.op = "status" /\ r.result = "active" /\ r.latest_data.status = "Active"
        /\ active_monitors[r.user] = r.monitor
        /\ monitors[r.monitor].active

\* C16: every result of predict_stress is a classification, its label one of
\* baseline, stress, amusement and its confidence in [0, 1]; on an argument
\* that makes its body raise the result is the fallback (baseline, 0.5,
\* model_used "fallback"), and on any other a model classification.
C16_PredictNeverRaises ==
    \A r \in responses :
        r.op = "predict_stress" =>
            /\ r.result.stress_level \in Labels
            /\ r.result.confidence \in 0..100
            /\ Raises(r.sensor_data) <=>
                  r.result = [stress_level |-> "baseline", confidence |-> 50,
                              model_used |-> "fallback"]

\* C16 witness: predict_stress answered the fallback for a value that is no
\* number, and stress for a reading with an absent key.
C16_Witness ==
    \E r, q \in responses :
        /\ r.op = "predict_stress" /\ r.sensor_data.heart_rate = Bad
        /\ r.result.model_used = "fallback"
        /\ q.op = "predict_stress" /\ q.sensor_data.heart_rate = Absent
        /\ q.result.stress_level = "stress"

\* A step taken for user a: a step of a start, stop or status request of a,
\* or of the loop of a session of a.
ActsFor(a) ==
    \/ /\ issued' # issued
       /\ StartCheck(a) \/ StopCheck(a) \/ StatusCheck(a)
    \/ /\ issued' = issued /\ calls' # calls
       /\ \E c \in Calls :
            /\ calls[c].user = a
            /\ \/ StartInsert(c) \/ StartMonitoringSet(c) \/ StartMonitoringSpawn(c)
               \/ StopPop(c) \/ StopMonitoring(c)
               \/ StatusLookup(c) \/ StatusGetLatest(c)
    \/ /\ issued' = issued /\ calls' = calls
       /\ \E m \in Monitors :
            /\ monitors[m].user = a
            /\ LoopTop(m) \/ LoopRead(m) \/ LoopStore(m)

\* C17: a step taken for user a leaves the registry entry of every other
\* user b, and the monitors (running flag, latest reading) and monitoring
\* threads of b, as they were; and every row such a step stores has user id a.
C17_UsersIndependent ==
    [][\A a \in Users :
          \/ /\ \A b \in Users \ {a} :
                    /\ active_monitors'[b] = active_monitors[b]
                    /\ \A m \in Monitors :
                          monitors[m].user = b =>
                              monitors'[m] = monitors[m] /\ threads'[m] = threads[m]
             /\ \A i \in (Len(predictions) + 1)..Len(predictions') :
                    predictions'[i].user_id = a
          \/ ~ActsFor(a)]_vars

\* C17 witness: sessions of two users are registered with their loops alive,
\* and the session of one of them has stored a row.
C17_Witness ==
    \E m, n \in Monitors :
        /\ monitors[m].user # monitors[n].user
        /\ active_monitors[monitors[m].user] = m /\ active_monitors[monitors[n].user] = n
        /\ Live(m) /\ Live(n)
        /\ Len(RowsOf(m)) >= 1

C19_SnapshotOfCompletedTick ==
    [][\A m \in Monitors :
          LoopRead(m) /\ threads'[m].pc = "store" =>
              get_latest_data(monitors'[m]) = get_latest_data(monitors[m])]_vars

\* The threads of monitor m that are executing the body of a tick.
InTick(m) == {t \in Loops : loops[t].monitor = m /\ loops[t].pc \in {"read", "store"}}

\* C20: no two ticks of one monitor execute concurrently: under any
\* interleaving of start_monitoring and stop_monitoring calls on the monitor,
\* at most one thread is executing the body of _monitoring_loop.
C20_OneLoopPerMonitor ==
    \A m \in Monitors : Cardinality(InTick(m)) <= 1

\* C21: within one session the rows are persisted in strict tick order: of
\* two rows of a session, the one stored first is of the earlier tick and
\* carries no later timestamp, whatever other writers and cleanups do to the
\* table in between.
C21_RowsInTickOrder ==
    \A m \in Monitors :
        \A i, j \in 1..Len(RowsOf(m)) :
            i < j => /\ RowsOf(m)[i].tick < RowsOf(m)[j].tick
                     /\ RowsOf(m)[i].timestamp <= RowsOf(m)[j].timestamp

\* C21 witness: the rows of a session's first and second tick are both in
\* the table, the second stored on a later day than the first.
C21_Witness ==
    \E m \in Monitors :
        /\ Len(RowsOf(m)) = 2
        /\ RowsOf(m)[1].tick = 1 /\ RowsOf(m)[2].tick = 2
        /\ RowsOf(m)[1].timestamp < RowsOf(m)[2].timestamp

\* C22: a stop issued while the loop is in its wait between ticks is
\* observed during the wait: once stop_monitoring has cleared the flag, the
\* loop has no seconds of the wait left before it tests the flag and exits.
C22_StopEndsWait ==
    [][\A c \in Calls :
          /\ StopMonitoring(c)
          /\ monitors[calls[c].monitor].active
          /\ threads[calls[c].monitor].pc = "sleep"
          => threads'[calls[c].monitor].sleep = 0]_vars

\* C23: no fault inside a tick ends the session.  The running flag of a
\* started session turns false only in a step of stop_monitoring, a loop
\* exits only with the flag cleared, and a tick that met a fault leaves the
\* flag as it was and the loop at its wait.
C23_FaultsContained ==
    [][\A m \in Monitors :
          /\ monitors[m].active /\ ~monitors'[m].active =>
                \E c \in Calls : calls[c].monitor = m /\ StopMonitoring(c)
          /\ Live(m) /\ threads'[m].pc = "done" => ~monitors[m].active
          /\ ~audit[m].faulted /\ audit'[m].faulted =>
                /\ monitors'[m].active = monitors[m].active
                /\ threads'[m].pc = "sleep"]_vars

\* C23 witness: a session never stopped ran a tick that met a fault and has
\* begun the tick after it.
C23_Witness ==
    \E m \in Monitors :
        /\ audit[m].faulted /\ audit[m].stopAt = -1
        /\ monitors[m].active
        /\ threads[m].ticks = 2 /\ threads[m].pc = "read"

\* What get_latest_data reports for a reading held by a monitor without a
\* prediction service.
CollectOnly == [stress_level |-> "baseline", confidence |-> 40, status |-> "Active"]

\* C24: with no prediction service bound, no step stores a row or emits; a
\* tick whose read did not fail keeps the reading as the latest reading,
\* which get_latest_data reports as active with the fallback label, and goes
\* straight to its wait with the running flag as it was.
C24_CollectOnly ==
    [][\A t \in Loops :
          LET m == loops[t].monitor
          IN  ~monitors[m].ml_service =>
                /\ predictions' = predictions
                /\ emitted' = emitted
                /\ loops[t].pc = "read" /\ loops'[t].pc # "read" =>
                      /\ loops'[t].pc = "sleep"
                      /\ monitors'[m].active = monitors[m].active
                      /\ IF loops'[t].read_failed
                           THEN monitors'[m] = monitors[m]
                           ELSE /\ monitors'[m].latest_sensor_data \in Readings
                                /\ get_latest_data(monitors'[m]) = CollectOnly]_vars

\* C24 witness: a monitor without a prediction service is running, its loop
\* has ended its second tick, the reading is held and nothing was stored.
C24_Witness ==
    \E t \in Loops :
        LET m == loops[t].monitor
        IN  /\ ~monitors[m].ml_service /\ monitors[m].database
            /\ monitors[m].active
            /\ loops[t].ticks = 2 /\ loops[t].pc = "sleep"
            /\ monitors[m].latest_sensor_data \in Readings
            /\ predictions = <<>> /\ emitted = <<>>

\* The emit calls made for tick n of thread t.
EmitsOf(t, n) == {i \in 1..Len(emitted) : emitted[i].thread = t /\ emitted[i].tick = n}

\* C25: with a prediction service and a socketio bound, a tick that produced
\* a classification goes on to the emit whether or not its row was stored;
\* the emit is one real_time_update, for the tick's reading and its
\* classification, to the room of the monitor's own user; it is the only emit
\* of the tick, and whether or not the call returns, the rows stored stay, the
\* running flag stays and the loop goes to its wait.
C25_OneEmitPerTick ==
    [][\A t \in Loops :
          LET m == loops[t].monitor
          IN  /\ loops[t].pc = "store" /\ loops'[t].pc # "store" /\ monitors[m].socketio =>
                    /\ loops'[t].pc = "emit"
                    /\ emitted' = emitted
              /\ loops[t].pc = "emit" /\ loops'[t].pc # "emit" =>
                    /\ Len(emitted') = Len(emitted) + 1
                    /\ SubSeq(emitted', 1, Len(emitted)) = emitted
                    /\ LET e == emitted'[Len(emitted')]
                       IN  /\ e.event = "real_time_update"
                           /\ e.room = monitors[m].user
                           /\ e.sensor_data = loops[t].sensor_data
                           /\ e.stress_level = predict_stress(loops[t].sensor_data).stress_level
                           /\ e.confidence = predict_stress(loops[t].sensor_data).confidence
                    /\ EmitsOf(t, loops[t].ticks) = {}
                    /\ predictions' = predictions
                    /\ monitors' = monitors
                    /\ loops'[t].pc = "sleep"
              /\ loops[t].pc # "emit" \/ loops'[t].pc = "emit" =>
                    \A n \in 1..loops'[t].ticks :
                        Cardinality({i \in 1..Len(emitted') :
                                        emitted'[i].thread = t /\ emitted'[i].tick = n})
                            = Cardinality(EmitsOf(t, n))]_vars

\* C25 witness: the emit of a thread's first tick did not return and the row
\* of that tick is in the table; the second tick stored no row and emitted.
C25_Witness ==
    \E t \in Loops :
        /\ \E i \in EmitsOf(t, 1) : ~emitted[i].delivered
        /\ \E i \in 1..Len(predictions) :
              predictions[i].caller.monitor = loops[t].monitor /\ predictions[i].tick = 1
        /\ EmitsOf(t, 2) # {}
        /\ \A i \in 1..Len(predictions) : predictions[i].tick # 2
        /\ monitors[loops[t].monitor].active
        /\ loops[t].pc = "sleep"

\* C28: a monitor constructed while the database module does not load exists
\* with self.database None and runs when started: none of its ticks reaches
\* the classification, stores a row or emits, even with a prediction service
\* and a socketio bound, and a tick whose read did not fail holds the reading
\* as the latest reading.
C28_NoDatabaseCollectsOnly ==
    [][\A t \in Loops :
          LET m == loops[t].monitor
          IN  ~database_loads =>
                /\ ~monitors[m].database
                /\ loops[t].pc = "passed" /\ loops'[t].pc # "passed" =>
                      monitors'[m].active /\ loops'[t].pc = "top"
                /\ loops'[t].pc \notin {"store", "emit"}
                /\ predictions' = <<>> /\ emitted' = <<>>
                /\ loops[t].pc = "read" /\ loops'[t].pc = "sleep" /\ ~loops'[t].read_failed =>
                      \E r \in Readings :
                          monitors' = [monitors EXCEPT ![m].latest_sensor_data = r]]_vars

\* C28 witness: a monitor with a prediction service and a socketio, and
\* without the database module, is running and has ended its second tick
\* holding a reading.
C28_Witness ==
    \E t \in Loops :
        LET m == loops[t].monitor
        IN  /\ ~database_loads /\ ~monitors[m].database
            /\ monitors[m].ml_service /\ monitors[m].socketio
            /\ monitors[m].active
            /\ loops[t].ticks = 2 /\ loops[t].pc = "sleep" /\ ~loops[t].read_failed
            /\ monitors[m].latest_sensor_data \in Readings

\* A stop request has popped monitor m and is about to call its stop_monitoring.
BeingStopped(m) ==
    \E c \in Calls : At(c, "stop", "stop_monitoring") /\ calls[c].monitor = m

\* C26: every session whose loop is live with the running flag set is the
\* monitor stored in the registry under its user's key, or has just been
\* popped by a stop request that is about to stop it: no running session is
\* out of reach of a later stop.
C26_NoOrphanSession ==
    \A m \in Monitors :
        Live(m) /\ monitors[m].active =>
            active_monitors[monitors[m].user] = m \/ BeingStopped(m)

\* C27: a status request answers active or inactive, never error, also when
\* a stop for the same user removes the registry entry between the status
\* request's membership test and its lookup.
C27_StatusNeverErrors ==
    \A r \in responses : r.op = "status" => r.result \in {"active", "inactive"}

\* A monitor with a prediction service that holds sensor_data as its latest
\* reading.
Holding(sensor_data) ==
    [user |-> "u1", ml_service |-> TRUE, socketio |-> FALSE, active |-> TRUE,
     latest_sensor_data |-> sensor_data, database |-> TRUE]

\* C29: for numbers or absent keys as heart_rate and eda, predict_stress
\* answers by the values alone: stress, 0.85 when heart_rate > 90 or
\* eda > 0.7; else amusement, 0.70 when heart_rate > 75 or eda > 0.5; else
\* baseline, 0.75; an absent heart_rate counts as 70 and an absent eda as 0.3.
\* The label get_latest_data reports for a reading is the label of the row
\* the loop stores for that reading.
C29_PredictByThresholds ==
    \A r \in responses :
        r.op = "predict_stress" /\ ~Raises(r.sensor_data) =>
            LET hr == IF r.sensor_data.heart_rate = Absent THEN 70
                                                           ELSE r.sensor_data.heart_rate
                eda == IF r.sensor_data.eda = Absent THEN 30 ELSE r.sensor_data.eda
                row == prediction_row(r.result.stress_level, r.result.confidence,
                                      r.sensor_data, "u1", r.result.model_used,
                                      Caller("_monitoring_loop", 1), 1)
            IN  /\ hr > 90 \/ eda > 70 =>
                      r.result.stress_level = "stress" /\ r.result.confidence = 85
                /\ ~(hr > 90 \/ eda > 70) /\ (hr > 75 \/ eda > 50) =>
                      r.result.stress_level = "amusement" /\ r.result.confidence = 70
                /\ ~(hr > 90 \/ eda > 70) /\ ~(hr > 75 \/ eda > 50) =>
                      r.result.stress_level = "baseline" /\ r.result.confidence = 75
                /\ get_latest_data(Holding(r.sensor_data)).stress_level = row.prediction

\* C29 witness: predict_stress answered amusement for a heart rate of exactly
\* 90 and baseline for an eda of exactly 0.5 with the heart rate absent.
C29_Witness ==
    \E r, q \in responses :
        /\ r.op = "predict_stress" /\ r.sensor_data = [heart_rate |-> 90, eda |-> 30]
        /\ r.result.stress_level = "amusement"
        /\ q.op = "predict_stress" /\ q.sensor_data = [heart_rate |-> Absent, eda |-> 50]
        /\ q.result.stress_level = "baseline"

\* The sync loops that are live.
LiveSyncLoops == (IF sync.greenthread = "alive" THEN 1 ELSE 0) + sync.unreferenced

\* C30: over any sequence of start_sync and stop_sync calls at most one sync
\* loop is live.  A start_sync while the flag is set changes nothing,
\* whichever user asks; a start_sync while it is clear leaves exactly one
\* live loop, that of the asking user; a stop_sync leaves the flag clear and
\* no loop live.
C30_OneSyncLoop ==
    [][/\ LiveSyncLoops <= 1 /\ LiveSyncLoops' <= 1
       /\ \A u \in Users :
             FitbitStartSync(u) =>
                 IF sync.running
                   THEN sync' = sync
                   ELSE sync'.running /\ sync'.user = u /\ LiveSyncLoops' = 1
       /\ FitbitStopSync => ~sync'.running /\ LiveSyncLoops' = 0]_vars

\* C30 witness: the sync of one user ran and stored a row and was stopped,
\* and the sync of the other user is now running.
C30_Witness ==
    /\ sync.running /\ sync.greenthread = "alive" /\ sync.user = "u2"
    /\ \E i \in 1..Len(predictions) :
          /\ predictions[i].caller.name = "FitbitBackgroundSync"
          /\ predictions[i].user_id = "u1"

====
